---- MODULE Spec2Model ----
(***************************************************************************)
(* A model of converter.py: the three pipeline stages load_data_file,      *)
(* clean_df and save_output, and the tkinter form that drives them through *)
(* convert().                                                              *)
(*                                                                         *)
(* A file is a sequence of lines and a line the sequence of its fields as  *)
(* split on the comma; a DataFrame is a record of column labels, index     *)
(* labels and rows; a raised exception is a result whose exc is not "".    *)
(***************************************************************************)
EXTENDS Integers, Sequences, FiniteSets, TLC

VARIABLES
    input_var,   \* the form's input path (tk.StringVar)
    output_var,  \* the form's output path (tk.StringVar), a sequence of characters
    progress,    \* progress_bar["value"]
    bar_style,   \* the progress bar's style
    pc,          \* where convert() stands; "idle" while the main loop waits
    df,          \* convert()'s local df
    dialogs,     \* the messagebox calls of the current convert()
    calls,       \* the pipeline stages the current convert() has invoked
    progs,       \* the values the current convert() has set the progress bar to
    disk,        \* the lines of the file at InPath
    outfs,       \* the files at the output paths
    openpyxl,    \* whether the openpyxl package can be imported
    tab,         \* a Table handed to clean_df
    once,        \* clean_df(tab)
    twice,       \* clean_df(clean_df(tab))
    phase        \* how many times clean_df has been applied to tab

guiVars == <<input_var, output_var, progress, bar_style, pc, df, dialogs,
             calls, progs, disk, outfs, openpyxl>>
cleanVars == <<tab, once, twice, phase>>
vars == <<guiVars, cleanVars>>

----------------------------------------------------------------------------
(* Bounds of the model.                                                    *)

MaxLines == 2   \* lines of the input file
MaxRows == 3    \* rows of a Table handed to clean_df

----------------------------------------------------------------------------
(* The schema.                                                             *)

WINE_HEADERS ==
    << "Cultivars", "Alcohol", "Malic acid", "Ash", "Alcalinity of ash",
       "Magnesium", "Total phenols", "Flavanoids", "Nonflavanoid phenols",
       "Proanthocyanins", "Color intensity", "Hue",
       "OD280/OD315 of diluted wines", "Proline" >>

NumCols == Len(WINE_HEADERS)

\* The missing value (numpy.nan) of a DataFrame.
NaN == "NaN"

\* Field texts that pandas.read_csv reads as missing.
NA_VALUES == {"", "NA", "NaN", "NULL", "nan", "null", "N/A", "n/a", "<NA>",
              "#N/A", "#NA", "None"}

Max(S) == CHOOSE x \in S : \A y \in S : y <= x

Range(s) == {s[i] : i \in 1..Len(s)}

\* index labels 0..n-1
RangeIndex(n) == [i \in 1..n |-> i - 1]

DataFrame(columns, index, rows) ==
    [columns |-> columns, index |-> index, rows |-> rows]

NoDf == DataFrame(<<>>, <<>>, <<>>)

\* What a call returns (exc = "") or raises (exc names the exception type and
\* msg is str(e), as the sequence of its parts).
Return(v) == [exc |-> "", msg |-> <<>>, val |-> v]
Raise(type, msg) == [exc |-> type, msg |-> msg, val |-> <<>>]

----------------------------------------------------------------------------
(* clean_df                                                                *)

\* DataFrame.duplicated(keep="first"): the positions of the rows that equal an
\* earlier row (missing values compare equal to each other).
RECURSIVE duplicated(_, _, _, _)
duplicated(rows, i, seen, acc) ==
    IF i > Len(rows) THEN acc
    ELSE duplicated(rows, i + 1, seen \cup {rows[i]},
                    IF rows[i] \in seen THEN acc \cup {i} ELSE acc)

RECURSIVE take(_, _, _)
take(s, drop, i) ==
    IF i > Len(s) THEN <<>>
    ELSE (IF i \in drop THEN <<>> ELSE <<s[i]>>) \o take(s, drop, i + 1)

\* drop_duplicates with its result thrown away: every row stays.
drop_duplicates_discarded(d) == d

\* drop_duplicates(keep="last"): the last occurrence of each row stays.
drop_duplicates_keep_last(d) ==
    LET n == Len(d.rows)
        rev == [i \in 1..n |-> d.rows[n + 1 - i]]
        dup == {n + 1 - i : i \in duplicated(rev, 1, {}, {})}
    IN  DataFrame(d.columns, take(d.index, dup, 1), take(d.rows, dup, 1))

\* DataFrame.drop_duplicates(): the first occurrence of each row, under the
\* index label it had.
drop_duplicates(d) ==
    LET dup == duplicated(d.rows, 1, {}, {})
    IN  DataFrame(d.columns, take(d.index, dup, 1), take(d.rows, dup, 1))

\* DataFrame.reset_index(drop=True)
reset_index(d) == DataFrame(d.columns, RangeIndex(Len(d.rows)), d.rows)

\* One row of the forward fill: a missing value takes the value above it.
fill_row(prev, row) ==
    [c \in 1..Len(row) |-> IF row[c] = NaN THEN prev[c] ELSE row[c]]

\* ffill(limit=1): a missing value is filled only from the row right above
\* it as it was before the fill.
RECURSIVE ffill_rows_limit1(_, _, _)
ffill_rows_limit1(rows, i, acc) ==
    IF i > Len(rows) THEN acc
    ELSE ffill_rows_limit1(rows, i + 1,
                           Append(acc, IF i = 1 THEN rows[1]
                                       ELSE fill_row(rows[i - 1], rows[i])))

RECURSIVE ffill_rows(_, _, _)
ffill_rows(rows, i, acc) ==
    IF i > Len(rows) THEN acc
    ELSE ffill_rows(rows, i + 1,
                    Append(acc, IF i = 1 THEN rows[1]
                                ELSE fill_row(acc[i - 1], rows[i])))

\* DataFrame.ffill()
ffill(d) == DataFrame(d.columns, d.index, ffill_rows(d.rows, 1, <<>>))

clean_df(d) == ffill(reset_index(drop_duplicates(d)))

----------------------------------------------------------------------------
(* load_data_file                                                          *)

\* The one file on disk that can be read, and a path where there is none.
InPath == "wine.data"
NoPath == "nofile.data"

\* Path.read_text: the file's lines, or FileNotFoundError.
read_text(path, lines) ==
    IF path = InPath THEN Return(lines)
    ELSE Raise("FileNotFoundError",
               <<"[Errno 2] No such file or directory: '", path, "'">>)

\* "," in sample: a line of more than one field holds a comma.  (The files of
\* the model are shorter than the 2048 characters of the sample.)
sniff(lines) ==
    IF \E i \in 1..Len(lines) : Len(lines[i]) > 1 THEN "," ELSE "None"

\* read_csv's separator: delimiter=None leaves sep at its default, the comma,
\* so the lines are split on the comma whatever sniff found.
separator(delimiter) == IF delimiter = "None" THEN "," ELSE delimiter

\* A line the parser drops before it counts fields (skip_blank_lines): no
\* field, or one field of white space.
is_blank(line) == Len(line) = 0 \/ (Len(line) = 1 /\ line[1] \in {"", " "})

\* A field as parsed: the texts of NA_VALUES are missing values; any other
\* text stands for the value read from it.
parse_field(f) == IF f \in NA_VALUES THEN NaN ELSE f

\* A row of the frame: the line's fields, padded with missing values up to
\* ncols (the parser pads a short line; it does not reject it).
parse_row(line, ncols) ==
    [c \in 1..ncols |-> IF c <= Len(line) THEN parse_field(line[c]) ELSE NaN]

\* on_bad_lines="skip": a bad line is one with more fields than the first line.
is_bad_line(line, ncols) == Len(line) > ncols

\* read_csv without header=None: the first line gives the labels and is no
\* row.
read_csv_header_inferred(lines, delimiter) ==
    LET content == SelectSeq(lines, LAMBDA l : ~is_blank(l))
    IN  IF content = <<>> THEN
            Raise("EmptyDataError", <<"No columns to parse from file">>)
        ELSE
            LET ncols == Len(content[1])
                good == SelectSeq(Tail(content), LAMBDA l : ~is_bad_line(l, ncols))
                rows == [i \in 1..Len(good) |-> parse_row(good[i], ncols)]
            IN  Return(DataFrame(content[1], RangeIndex(Len(rows)), rows))

\* pandas.read_csv(path, delimiter=delimiter, header=None, engine="python",
\* on_bad_lines="skip"): the column count is the first non-blank line's field
\* count and the labels are 0..ncols-1.  `lines` are the file's lines split on
\* separator(delimiter).
read_csv(lines, delimiter) ==
    LET content == SelectSeq(lines, LAMBDA l : ~is_blank(l))
    IN  IF content = <<>> THEN
            Raise("EmptyDataError", <<"No columns to parse from file">>)
        ELSE
            LET ncols == Len(content[1])
                good == SelectSeq(content, LAMBDA l : ~is_bad_line(l, ncols))
                rows == [i \in 1..Len(good) |-> parse_row(good[i], ncols)]
            IN  Return(DataFrame(RangeIndex(ncols), RangeIndex(Len(rows)), rows))

schema_mismatch(n) ==
    Raise("ValueError",
          <<"Dataset has ", ToString(n), " columns but Wine dataset requires ",
            ToString(Len(WINE_HEADERS)), ".">>)

\* load_data_file without its column count check.
load_data_file_unchecked(path, lines) ==
    LET sample == read_text(path, lines)
    IN  IF sample.exc # "" THEN sample
        ELSE LET r == read_csv(sample.val, sniff(sample.val))
             IN  IF r.exc # "" THEN r
                 ELSE Return(DataFrame(WINE_HEADERS, r.val.index, r.val.rows))

load_data_file(path, lines) ==
    LET sample == read_text(path, lines)
    IN  IF sample.exc # "" THEN sample
        ELSE LET r == read_csv(sample.val, sniff(sample.val))
             IN  IF r.exc # "" THEN r
                 ELSE IF Len(r.val.columns) # Len(WINE_HEADERS)
                      THEN schema_mismatch(Len(r.val.columns))
                      ELSE Return(DataFrame(WINE_HEADERS, r.val.index, r.val.rows))

----------------------------------------------------------------------------
(* save_output                                                             *)

UPPER == <<"A","B","C","D","E","F","G","H","I","J","K","L","M",
           "N","O","P","Q","R","S","T","U","V","W","X","Y","Z">>
LOWER == <<"a","b","c","d","e","f","g","h","i","j","k","l","m",
           "n","o","p","q","r","s","t","u","v","w","x","y","z">>

\* The extension compared as typed, without .lower().
lower_forgotten(s) == s

\* str.lower(), a path being the sequence of its characters
lower(s) ==
    [i \in 1..Len(s) |->
        IF s[i] \in Range(UPPER)
        THEN LOWER[CHOOSE k \in 1..Len(UPPER) : UPPER[k] = s[i]]
        ELSE s[i]]

\* PurePath.name: what follows the last separator
name(p) ==
    LET seps == {i \in 1..Len(p) : p[i] = "/"}
    IN  IF seps = {} THEN p ELSE SubSeq(p, Max(seps) + 1, Len(p))

\* PurePath.suffix: the name from its last dot on, unless that dot starts or
\* ends the name
suffix(p) ==
    LET n == name(p)
        dots == {i \in 1..Len(n) : n[i] = "."}
    IN  IF dots = {} THEN <<>>
        ELSE IF 1 < Max(dots) /\ Max(dots) < Len(n)
             THEN SubSeq(n, Max(dots), Len(n))
             ELSE <<>>

XLSX == <<".", "x", "l", "s", "x">>
CSV == <<".", "c", "s", "v">>

\* A file that is not there, and one that was there before the program ran.
Absent == [format |-> "absent", lines |-> <<>>]
Old == [format |-> "old", lines |-> <<>>]

\* What a writer puts in the file: the column labels, then the rows, a
\* missing value as an empty field; index=False writes no index column.
sheet(d) ==
    <<d.columns>> \o
    [i \in 1..Len(d.rows) |->
        [c \in 1..Len(d.rows[i]) |->
            IF d.rows[i][c] = NaN THEN "" ELSE d.rows[i][c]]]

\* DataFrame.to_excel(output_path, index=False, engine='openpyxl'): importing
\* openpyxl precedes opening the file.
to_excel(d, output_path, fs, have_openpyxl) ==
    IF have_openpyxl
    THEN Return([fs EXCEPT ![output_path] = [format |-> "xlsx", lines |-> sheet(d)]])
    ELSE Raise("ModuleNotFoundError", <<"No module named 'openpyxl'">>)

\* DataFrame.to_csv(output_path, index=False)
to_csv(d, output_path, fs) ==
    Return([fs EXCEPT ![output_path] = [format |-> "csv", lines |-> sheet(d)]])

ImportErrors == {"ImportError", "ModuleNotFoundError"}

openpyxl_message ==
    <<"Excel export requires 'openpyxl' package.\n\n",
      "Please install it by running:\n",
      "pip install openpyxl\n\n",
      "Or save the file as CSV instead.">>

unsupported_message == <<"Unsupported output format. Please use .xlsx or .csv">>

\* save_output writing the CSV itself when openpyxl is missing.
save_output_csv_fallback(d, output_path, fs, have_openpyxl) ==
    LET ext == lower(suffix(output_path))
    IN  IF ext = XLSX THEN
            LET r == to_excel(d, output_path, fs, have_openpyxl)
            IN  IF r.exc \in ImportErrors
                THEN to_csv(d, output_path, fs)
                ELSE r
        ELSE IF ext = CSV THEN to_csv(d, output_path, fs)
        ELSE Raise("ValueError", unsupported_message)

\* The result's val is the file system after the call.
save_output(d, output_path, fs, have_openpyxl) ==
    LET ext == lower(suffix(output_path))
    IN  IF ext = XLSX THEN
            LET r == to_excel(d, output_path, fs, have_openpyxl)
            IN  IF r.exc \in ImportErrors
                THEN Raise("ImportError", openpyxl_message)
                ELSE r
        ELSE IF ext = CSV THEN to_csv(d, output_path, fs)
        ELSE Raise("ValueError", unsupported_message)

----------------------------------------------------------------------------
(* The inputs of the model.                                                *)

\* A line of n fields: a label, the field's number elsewhere, `third` in the
\* third field.
Line(n, label, third) ==
    [i \in 1..n |-> IF i = 1 THEN label ELSE IF i = 3 THEN third ELSE ToString(i)]

\* The lines a file is made of: a blank line, a header-like line, data lines
\* of 14 fields (one with an empty third field), a short and a long line, and
\* a line of 14 values with blanks and no comma between them, which is one
\* field.
Lines ==
    {<<>>, WINE_HEADERS,
     Line(NumCols, "A", "3"), Line(NumCols, "A", ""),
     Line(NumCols - 1, "B", "3"), Line(NumCols + 1, "C", "3"),
     <<"D 2 3 4 5 6 7 8 9 10 11 12 13 14">>}

RECURSIVE SeqsUpTo(_, _)
SeqsUpTo(S, n) ==
    IF n = 0 THEN {<<>>}
    ELSE LET shorter == SeqsUpTo(S, n - 1)
         IN  shorter \cup {Append(s, x) : s \in shorter, x \in S}

Files == SeqsUpTo(Lines, MaxLines)

\* What the operator may type as the input path.
InputPaths == {"", InPath, NoPath}

\* What the operator may type as the output path, and the files there can be:
\* a typed name, or a name the save dialog has given its default extension.
OutNames ==
    { <<>>,
      <<"o", ".", "C", "S", "V">>,
      <<"o", ".", "X", "l", "s", "x">>,
      <<"o", ".", "t", "x", "t">>,
      <<"o">> }

with_default_extension(p, ext) == IF suffix(p) = <<>> THEN p \o ext ELSE p

OutFiles == {with_default_extension(p, XLSX) : p \in OutNames \ {<<>>}}
                \cup (OutNames \ {<<>>})

\* A cell of a Table handed to clean_df, and the rows it is made of: the
\* label, the third and the last column vary.
Cells == {NaN, "X", "Y"}

Row(label, third, last) ==
    [i \in 1..NumCols |->
        IF i = 1 THEN label ELSE IF i = 3 THEN third
        ELSE IF i = NumCols THEN last ELSE ToString(i)]

Rows == {Row(l, t, z) : l \in {"A", "B"}, t \in Cells, z \in {NaN, "Z"}}

Tables ==
    {DataFrame(WINE_HEADERS, RangeIndex(Len(rs)), rs) : rs \in SeqsUpTo(Rows, MaxRows)}

----------------------------------------------------------------------------
(* The form.                                                               *)

Dialog(fn, title, message) == [fn |-> fn, title |-> title, message |-> message]

EmptyInputDialog == Dialog("showerror", "Error", <<"Select an input .data file.">>)
EmptyOutputDialog == Dialog("showerror", "Error", <<"Choose an output file path.">>)
SuccessDialog == Dialog("showinfo", "Success", <<"File converted successfully.">>)

\* "openpyxl" in error_msg
mentions_openpyxl(msg) ==
    \E i \in 1..Len(msg) :
        msg[i] \in {"Excel export requires 'openpyxl' package.\n\n",
                    "pip install openpyxl\n\n",
                    "No module named 'openpyxl'"}

\* convert()'s two except clauses: the dialog for a raised exception.
FailureDialog(e) ==
    IF e.exc \in ImportErrors
    THEN Dialog("showerror", "Conversion Failed",
                IF mentions_openpyxl(e.msg)
                THEN e.msg \o <<"\n\nYou can still save as CSV format.">>
                ELSE e.msg)
    ELSE Dialog("showerror", "Conversion Failed", e.msg)

Idle == pc = "idle"

\* browse_input: the file dialog returns a path, or "" when cancelled.
browse_input ==
    /\ Idle
    /\ \E path \in {"", InPath} :
          input_var' = IF path # "" THEN path ELSE input_var
    /\ UNCHANGED <<output_var, progress, bar_style, pc, df, dialogs, calls,
                   progs, disk, outfs, openpyxl, cleanVars>>

\* browse_output: the save dialog returns the typed name, with ".xlsx" when
\* it has no extension, or "" when cancelled.
browse_output ==
    /\ Idle
    /\ \E typed \in OutNames :
          LET path == IF typed = <<>> THEN <<>>
                      ELSE with_default_extension(typed, XLSX)
          IN  output_var' = IF path # <<>> THEN path ELSE output_var
    /\ UNCHANGED <<input_var, progress, bar_style, pc, df, dialogs, calls,
                   progs, disk, outfs, openpyxl, cleanVars>>

\* The operator types into the input Entry.
edit_input ==
    /\ Idle
    /\ input_var' \in InputPaths
    /\ UNCHANGED <<output_var, progress, bar_style, pc, df, dialogs, calls,
                   progs, disk, outfs, openpyxl, cleanVars>>

\* The operator types into the output Entry.
edit_output ==
    /\ Idle
    /\ output_var' \in OutNames
    /\ UNCHANGED <<input_var, progress, bar_style, pc, df, dialogs, calls,
                   progs, disk, outfs, openpyxl, cleanVars>>

\* convert(), up to its return on an empty path.
convert_empty ==
    /\ Idle
    /\ input_var = "" \/ output_var = <<>>
    /\ dialogs' = <<IF input_var = "" THEN EmptyInputDialog ELSE EmptyOutputDialog>>
    /\ pc' = "returned"
    /\ UNCHANGED <<input_var, output_var, progress, bar_style, df, calls,
                   progs, disk, outfs, openpyxl, cleanVars>>

\* convert() without its check of the output path.
convert_begin_output_unchecked ==
    /\ Idle
    /\ input_var # ""
    /\ progress' = 20
    /\ progs' = <<20>>
    /\ pc' = "load"
    /\ UNCHANGED <<input_var, output_var, bar_style, df, dialogs, calls,
                   disk, outfs, openpyxl, cleanVars>>

\* convert(), from its entry to the call of load_data_file.
convert_begin ==
    /\ Idle
    /\ input_var # ""
    /\ output_var # <<>>
    /\ progress' = 20
    /\ progs' = <<20>>
    /\ pc' = "load"
    /\ UNCHANGED <<input_var, output_var, bar_style, df, dialogs, calls,
                   disk, outfs, openpyxl, cleanVars>>

\* The except clauses without the progress bar's reset.
failed_without_reset(e) ==
    /\ dialogs' = Append(dialogs, FailureDialog(e))
    /\ UNCHANGED <<progress, progs>>
    /\ pc' = "returned"

\* The except clauses of convert(): the dialog, then the progress bar at 0.
failed(e) ==
    /\ dialogs' = Append(dialogs, FailureDialog(e))
    /\ progress' = 0
    /\ progs' = Append(progs, 0)
    /\ pc' = "returned"

\* df = load_data_file(Path(input_path)), then the progress bar at 60.
convert_load ==
    /\ pc = "load"
    /\ calls' = Append(calls, "load_data_file")
    /\ LET r == load_data_file(input_var, disk)
       IN  IF r.exc = ""
           THEN /\ df' = r.val
                /\ progress' = 60
                /\ progs' = Append(progs, 60)
                /\ pc' = "clean"
                /\ UNCHANGED dialogs
           ELSE /\ failed(r)
                /\ UNCHANGED df
    /\ UNCHANGED <<input_var, output_var, bar_style, disk, outfs, openpyxl,
                   cleanVars>>

\* df = clean_df(df), then the progress bar at 80.
convert_clean ==
    /\ pc = "clean"
    /\ calls' = Append(calls, "clean_df")
    /\ df' = clean_df(df)
    /\ progress' = 80
    /\ progs' = Append(progs, 80)
    /\ pc' = "save"
    /\ UNCHANGED <<input_var, output_var, bar_style, dialogs, disk, outfs,
                   openpyxl, cleanVars>>

\* save_output(df, Path(output_path)), then the progress bar at 100 and
\* green, and the success dialog.
convert_save ==
    /\ pc = "save"
    /\ calls' = Append(calls, "save_output")
    /\ LET r == save_output(df, output_var, outfs, openpyxl)
       IN  IF r.exc = ""
           THEN /\ outfs' = r.val
                /\ progress' = 100
                /\ progs' = Append(progs, 100)
                /\ bar_style' = "Green.Horizontal.TProgressbar"
                /\ dialogs' = Append(dialogs, SuccessDialog)
                /\ pc' = "returned"
           ELSE /\ failed(r)
                /\ UNCHANGED <<outfs, bar_style>>
    /\ UNCHANGED <<input_var, output_var, df, disk, openpyxl, cleanVars>>

\* convert() has returned: its locals are gone and the main loop waits for
\* the next event.
mainloop ==
    /\ pc = "returned"
    /\ pc' = "idle"
    /\ df' = NoDf
    /\ dialogs' = <<>>
    /\ calls' = <<>>
    /\ progs' = <<>>
    /\ UNCHANGED <<input_var, output_var, progress, bar_style, disk, outfs,
                   openpyxl, cleanVars>>

CleanIdle == tab = NoDf /\ once = NoDf /\ twice = NoDf /\ phase = 0

\* The form as built: empty paths, the progress bar at 0; on disk, some input
\* file, and output files either all absent or all there already.
Init ==
    /\ input_var = ""
    /\ output_var = <<>>
    /\ progress = 0
    /\ bar_style = "Horizontal.TProgressbar"
    /\ pc = "idle"
    /\ df = NoDf
    /\ dialogs = <<>>
    /\ calls = <<>>
    /\ progs = <<>>
    /\ disk \in Files
    /\ \E before \in {Absent, Old} : outfs = [p \in OutFiles |-> before]
    /\ openpyxl \in BOOLEAN
    /\ CleanIdle

Next ==
    \/ browse_input
    \/ browse_output
    \/ edit_input
    \/ edit_output
    \/ convert_empty
    \/ convert_begin
    \/ convert_load
    \/ convert_clean
    \/ convert_save
    \/ mainloop

Spec == Init /\ [][Next]_vars

----------------------------------------------------------------------------
(* clean_df applied to a Table, and to its own result.                     *)

FormIdle ==
    /\ input_var = ""
    /\ output_var = <<>>
    /\ progress = 0
    /\ bar_style = "Horizontal.TProgressbar"
    /\ pc = "idle"
    /\ df = NoDf
    /\ dialogs = <<>>
    /\ calls = <<>>
    /\ progs = <<>>
    /\ disk = <<>>
    /\ outfs = [p \in OutFiles |-> Absent]
    /\ openpyxl = TRUE

InitClean ==
    /\ FormIdle
    /\ tab \in Tables
    /\ once = NoDf
    /\ twice = NoDf
    /\ phase = 0

clean_once ==
    /\ phase = 0
    /\ once' = clean_df(tab)
    /\ phase' = 1
    /\ UNCHANGED <<tab, twice, guiVars>>

clean_twice ==
    /\ phase = 1
    /\ twice' = clean_df(once)
    /\ phase' = 2
    /\ UNCHANGED <<tab, once, guiVars>>

NextClean == clean_once \/ clean_twice

SpecClean == InitClean /\ [][NextClean]_vars

----------------------------------------------------------------------------
(* What the claims speak of.                                               *)

STAGES == <<"load_data_file", "clean_df", "save_output">>

IsPrefix(s, t) == Len(s) <= Len(t) /\ s = SubSeq(t, 1, Len(s))

\* The lines of the file on disk that hold anything.
Content == SelectSeq(disk, LAMBDA l : ~is_blank(l))

\* No output file has been created or overwritten since the form was built.
NothingWritten == \E before \in {Absent, Old} : outfs = [p \in OutFiles |-> before]

\* A line's fields as a row's values.
AsRow(line) ==
    [c \in 1..Len(line) |-> IF line[c] \in NA_VALUES THEN NaN ELSE line[c]]

\* The positions of the rows that equal no earlier row.
FirstOccurrences(rows) ==
    {i \in 1..Len(rows) : \A j \in 1..(i - 1) : rows[j] # rows[i]}

\* The rows at the positions P, in their order.
RowsAt(rows, P) ==
    [k \in 1..Cardinality(P) |->
        rows[CHOOSE i \in P : Cardinality({j \in P : j <= i}) = k]]

Deduplicated(rows) == RowsAt(rows, FirstOccurrences(rows))

HasMissing(rows) == \E i \in 1..Len(rows) : NaN \in Range(rows[i])

\* The output paths by their extension, letter case aside.
CsvPaths == {<<"o", ".", "C", "S", "V">>}
XlsxPaths == {<<"o", ".", "X", "l", "s", "x">>, <<"o", ".", "x", "l", "s", "x">>}
OtherPaths == {<<"o", ".", "t", "x", "t">>, <<"o">>}

----------------------------------------------------------------------------
(* C1: when the file's parsed column count (the field count of its first   *)
(* line that holds anything) is not 14, a convert() that loads it ends     *)
(* after load_data_file with the one dialog "Dataset has <n> columns but   *)
(* Wine dataset requires 14.", clean_df and save_output are never invoked  *)
(* and no output file is ever written.                                     *)
C1_SchemaMismatch ==
    (Content # <<>> /\ Len(Content[1]) # 14) =>
        /\ NothingWritten
        /\ pc \notin {"clean", "save"}
        /\ "clean_df" \notin Range(calls)
        /\ "save_output" \notin Range(calls)
        /\ (pc = "returned" /\ calls # <<>> /\ input_var = InPath) =>
              /\ calls = <<"load_data_file">>
              /\ progress = 0
              /\ dialogs =
                   <<Dialog("showerror", "Conversion Failed",
                            <<"Dataset has ", ToString(Len(Content[1])),
                              " columns but Wine dataset requires ", "14", ".">>)>>

\* A convert() has ended on a file of 15 columns, the output files that were
\* there before untouched.
C1_Witness ==
    /\ pc = "returned"
    /\ calls = <<"load_data_file">>
    /\ Content # <<>> /\ Len(Content[1]) = 15
    /\ dialogs # <<>> /\ dialogs[1].message[2] = "15"
    /\ outfs = [p \in OutFiles |-> Old]

(* C2 as claimed: clean_df(clean_df(T)) equals clean_df(T) for any Table T. *)
C2_Idempotent == phase = 2 => twice = once

(* C2 as amended: clean_df(clean_df(T)) is clean_df(T) with the rows that   *)
(* equal an earlier row dropped and the rest reindexed; it equals           *)
(* clean_df(T) when clean_df(T) has no two equal rows, as for any T         *)
(* without missing values.                                                  *)
C2_IdempotentUpToDuplicates ==
    phase = 2 =>
        /\ twice.columns = once.columns
        /\ twice.rows = Deduplicated(once.rows)
        /\ twice.index = [k \in 1..Len(twice.rows) |-> k - 1]
        /\ FirstOccurrences(once.rows) = 1..Len(once.rows) => twice = once
        /\ ~HasMissing(tab.rows) => twice = once

\* The forward fill has made two rows equal, the first between two others,
\* and the second clean_df has dropped the later one.
C2_Witness ==
    /\ phase = 2
    /\ Len(once.rows) = 3
    /\ once.rows[1] = once.rows[3]
    /\ once.rows[1] # once.rows[2]
    /\ Len(twice.rows) = 2

(* C3 as claimed: the loaded Table holds exactly the lines of 14 fields, in *)
(* order; a line of fewer or of more fields is skipped.                     *)
C3_WrongFieldCountSkipped ==
    pc = "clean" =>
        LET kept == SelectSeq(disk, LAMBDA l : Len(l) = 14)
        IN  df.rows = [i \in 1..Len(kept) |-> AsRow(kept[i])]

C5_ForwardFill ==
    phase >= 1 =>
        LET D == Deduplicated(tab.rows)
        IN  /\ Len(once.rows) = Len(D)
            /\ \A i \in 1..Len(D) : \A c \in 1..14 :
                  LET before == {j \in 1..i : D[j][c] # NaN}
                  IN  once.rows[i][c] =
                          IF before = {} THEN NaN ELSE D[Max(before)][c]

\* A value missing in two rows running has been filled from above, and one
\* with nothing above it is still missing.
C5_Witness ==
    /\ phase = 1
    /\ Len(tab.rows) = 3 /\ Len(once.rows) = 3
    /\ tab.rows[1][3] = "X" /\ tab.rows[2][3] = NaN /\ tab.rows[3][3] = NaN
    /\ once.rows[2][3] = "X" /\ once.rows[3][3] = "X"
    /\ tab.rows[1][14] = NaN /\ once.rows[1][14] = NaN

(* C6: save_output on a path whose extension is neither .csv nor .xlsx,     *)
(* letter case aside, ends in the unsupported-format failure and leaves     *)
(* every file as it was; on a .csv path, in any case, it writes the csv     *)
(* file at that path, and on an .xlsx path, in any case, the xlsx file      *)
(* (openpyxl being there), and nothing else.                                *)
C6_SaveStep ==
    pc = "save" =>
        /\ output_var \in CsvPaths \cup XlsxPaths \cup OtherPaths
        /\ output_var \in OtherPaths =>
              /\ outfs' = outfs
              /\ dialogs' =
                   <<Dialog("showerror", "Conversion Failed",
                            <<"Unsupported output format. Please use .xlsx or .csv">>)>>
        /\ output_var \in CsvPaths =>
              /\ outfs'[output_var].format = "csv"
              /\ outfs'[output_var].lines[1] = WINE_HEADERS
              /\ \A p \in OutFiles \ {output_var} : outfs'[p] = outfs[p]
              /\ dialogs' = <<SuccessDialog>>
        /\ (output_var \in XlsxPaths /\ openpyxl) =>
              /\ outfs'[output_var].format = "xlsx"
              /\ outfs'[output_var].lines[1] = WINE_HEADERS
              /\ \A p \in OutFiles \ {output_var} : outfs'[p] = outfs[p]
              /\ dialogs' = <<SuccessDialog>>

C6_ExtensionDispatch == [][C6_SaveStep]_vars

\* save_output has failed on o.txt, which was there before and still is as it
\* was, after an earlier convert() wrote o.CSV.
C6_Witness ==
    /\ pc = "returned"
    /\ calls = STAGES
    /\ output_var = <<"o", ".", "t", "x", "t">>
    /\ dialogs # <<>> /\ dialogs[1].fn = "showerror"
    /\ outfs[output_var] = Old
    /\ outfs[<<"o", ".", "C", "S", "V">>].format = "csv"

(* C7: save_output on an .xlsx path without openpyxl writes no file, and    *)
(* convert() ends there with the one failure dialog, whose message suggests *)
(* saving as CSV, and the progress bar at 0.                                *)
C7_SaveStep ==
    (pc = "save" /\ output_var \in XlsxPaths /\ ~openpyxl) =>
        /\ outfs' = outfs
        /\ pc' = "returned"
        /\ progress' = 0
        /\ Len(dialogs') = 1
        /\ dialogs'[1].fn = "showerror"
        /\ dialogs'[1].title = "Conversion Failed"
        /\ "Or save the file as CSV instead." \in Range(dialogs'[1].message)
        /\ "Excel export requires 'openpyxl' package.\n\n" \in Range(dialogs'[1].message)

C7_MissingDependency == [][C7_SaveStep]_vars

\* A convert() to an .xlsx path has ended without openpyxl: the dialog is up
\* and no file is there.
C7_Witness ==
    /\ pc = "returned"
    /\ calls = STAGES
    /\ ~openpyxl
    /\ output_var \in XlsxPaths
    /\ dialogs # <<>>
    /\ "Or save the file as CSV instead." \in Range(dialogs[1].message)
    /\ outfs = [p \in OutFiles |-> Absent]

(* C8: a convert() entered with the input path or the output path empty     *)
(* returns after the one empty-path dialog, with no stage invoked, the      *)
(* progress bar and every file as they were; the pipeline is entered only   *)
(* with both paths non-empty.                                               *)
C8_ConvertStep ==
    /\ (pc = "idle" /\ pc' # "idle" /\ (input_var = "" \/ output_var = <<>>)) =>
          /\ pc' = "returned"
          /\ calls' = <<>>
          /\ progress' = progress
          /\ bar_style' = bar_style
          /\ outfs' = outfs
          /\ dialogs' =
               <<Dialog("showerror", "Error",
                        IF input_var = "" THEN <<"Select an input .data file.">>
                        ELSE <<"Choose an output file path.">>)>>
    /\ pc' \in {"load", "clean", "save"} => (input_var # "" /\ output_var # <<>>)

C8_EmptyPath == [][C8_ConvertStep]_vars

\* After a conversion that succeeded, a convert() with the output path
\* emptied has returned: the progress bar is still at 100.
C8_Witness ==
    /\ pc = "returned"
    /\ input_var # "" /\ output_var = <<>>
    /\ dialogs = <<EmptyOutputDialog>>
    /\ calls = <<>>
    /\ progress = 100

(* C9: clean_df's result has at most as many rows as its argument (as many  *)
(* as the argument has distinct rows, so two identical rows yield one), and *)
(* the same 14 columns in the same order.                                   *)
C9_RowsAndColumns ==
    phase >= 1 =>
        /\ Len(once.rows) <= Len(tab.rows)
        /\ Len(once.rows) = Cardinality(Range(tab.rows))
        /\ once.columns = tab.columns
        /\ once.columns = WINE_HEADERS
        /\ \A i \in 1..Len(once.rows) : Len(once.rows[i]) = 14

\* A Table of two identical rows has been cleaned to one row.
C9_Witness ==
    /\ phase = 1
    /\ Len(tab.rows) = 2
    /\ tab.rows[1] = tab.rows[2]
    /\ Len(once.rows) = 1

(* C10: in a convert() past the path checks the stages run in the order     *)
(* load_data_file, clean_df, save_output, each at most once, the progress   *)
(* bar going 20, 60, 80, 100; a stage's failure ends the attempt with one   *)
(* failure dialog, no later stage and the progress bar at 0; the success    *)
(* dialog is shown only after save_output has written the file.             *)
C10_StagesInOrder ==
    /\ IsPrefix(calls, STAGES)
    /\ pc = "idle" => (calls = <<>> /\ dialogs = <<>>)
    /\ pc = "load" => (calls = <<>> /\ progs = <<20>> /\ dialogs = <<>>)
    /\ pc = "clean" =>
          (calls = SubSeq(STAGES, 1, 1) /\ progs = <<20, 60>> /\ dialogs = <<>>)
    /\ pc = "save" =>
          (calls = SubSeq(STAGES, 1, 2) /\ progs = <<20, 60, 80>> /\ dialogs = <<>>)
    /\ pc \in {"load", "clean", "save"} => progress = progs[Len(progs)]
    /\ (pc = "returned" /\ calls # <<>>) =>
          /\ Len(dialogs) = 1
          /\ \/ /\ dialogs[1] = Dialog("showinfo", "Success",
                                       <<"File converted successfully.">>)
                /\ calls = STAGES
                /\ progs = <<20, 60, 80, 100>>
                /\ progress = 100
                /\ outfs[output_var].format \in {"csv", "xlsx"}
             \/ /\ dialogs[1].fn = "showerror"
                /\ dialogs[1].title = "Conversion Failed"
                /\ progress = 0
                /\ \/ calls = SubSeq(STAGES, 1, 1) /\ progs = <<20, 0>>
                   \/ calls = STAGES /\ progs = <<20, 60, 80, 0>>
          /\ load_data_file(input_var, disk).exc # "" => calls = SubSeq(STAGES, 1, 1)

\* A convert() has failed in save_output, its third stage.
C10_Witness ==
    /\ pc = "returned"
    /\ calls = STAGES
    /\ progs = <<20, 60, 80, 0>>
    /\ progress = 0
    /\ Len(dialogs) = 1
    /\ dialogs[1].title = "Conversion Failed"

====
